---- MODULE Spec2Model ----
(***************************************************************************)
(* A model of src/document_intelligence.py (DocumentIntelligenceSystem):   *)
(* page segmentation, the noise filter, content classification, weighted   *)
(* top-K ranking and the per-document loop of process_documents.           *)
(*                                                                         *)
(* Strings are sequences of one-character strings.  Cosine similarities    *)
(* are fixed-point integers in hundredths and the content-type weights are *)
(* integers in tenths, so a weighted score is an integer in thousandths.   *)
(***************************************************************************)
EXTENDS Integers, Sequences, FiniteSets, TLC

VARIABLES
    model,          \* self.model: "None" or "loaded"
    top_k,          \* self.top_k
    all_sections,   \* the pooled section list handed to rank_sections
    similarities,   \* util.pytorch_cos_sim(...)[0], aligned with all_sections
    top_sections,   \* the list rank_sections returned
    text,           \* the text argument of the running call
    lines,          \* _extract_sections_from_page: text.split('\n')
    pos,            \* _extract_sections_from_page: index of the next line
    current,        \* _extract_sections_from_page: the accumulator
    sections,       \* _extract_sections_from_page: the sections emitted
    meaningful,     \* what _is_meaningful_section returned
    documents,      \* process_documents: input_data['documents'], as filenames
    pdfs,           \* the PDF directory: what each filename holds
    doc_i,          \* process_documents: index of the next document
    processed_docs, \* process_documents: processed_docs
    output,         \* process_documents: the record returned
    pc              \* position of the running call

rankVars == <<model, top_k, all_sections, similarities, top_sections>>
segVars == <<text, lines, pos, current, sections, meaningful>>
pipeVars == <<documents, pdfs, doc_i, processed_docs, output>>

vars == <<rankVars, segVars, pipeVars, pc>>

(***************************************************************************)
(* Bounds of the model.                                                    *)
(***************************************************************************)
MaxSections == 3
MaxTopK == 4
MaxLines == 3
MaxWords == 11
MaxNewlines == 3
MaxPad == 2
MaxDocs == 2
MaxPages == 2

Min(a, b) == IF a < b THEN a ELSE b
Max(a, b) == IF a > b THEN a ELSE b

(***************************************************************************)
(* Strings: sequences of one-character strings.                            *)
(***************************************************************************)
NL == "\n"

\* What str.strip(), str.split() and \s take for whitespace.
Whitespace == {" ", "\t", NL}

Upper ==
    {"A", "B", "C", "D", "E", "F", "G", "H", "I", "J", "K", "L", "M",
     "N", "O", "P", "Q", "R", "S", "T", "U", "V", "W", "X", "Y", "Z"}

Lower ==
    {"a", "b", "c", "d", "e", "f", "g", "h", "i", "j", "k", "l", "m",
     "n", "o", "p", "q", "r", "s", "t", "u", "v", "w", "x", "y", "z"}

Digit == {"0", "1", "2", "3", "4", "5", "6", "7", "8", "9"}

\* s[:n]
Take(s, n) == SubSeq(s, 1, Min(n, Len(s)))

\* c repeated n times.
Rep(c, n) == [i \in 1..n |-> c]

\* s.count(c) for the characters of C.
Count(s, C) == Cardinality({i \in 1..Len(s) : s[i] \in C})

\* The indices of s from i on, in order, whose character is not in C.
OutsideFrom(s, i, C) ==
    SelectSeq([j \in 1..(Len(s) - i + 1) |-> j + i - 1],
              LAMBDA j : s[j] \notin C)

\* The last index of the longest run of characters of C that starts at i
\* (i - 1 when s[i] is not in C).
RunEnd(s, i, C) ==
    LET out == OutsideFrom(s, i, C)
    IN  IF out = <<>> THEN Max(Len(s), i - 1) ELSE out[1] - 1

\* The first index of the longest run of characters of C that ends at the
\* last character of s (Len(s) + 1 when there is none).
TrailingRunStart(s, C) ==
    LET out == OutsideFrom(s, 1, C)
    IN  IF out = <<>> THEN 1 ELSE out[Len(out)] + 1

\* s.strip()
Strip(s) ==
    LET a == RunEnd(s, 1, Whitespace) + 1
    IN  IF a > Len(s) THEN <<>>
        ELSE SubSeq(s, a, TrailingRunStart(s, Whitespace) - 1)

\* The pieces of s between the characters of seps: s.split('\n'), and
\* re.split(r'[.!?]', s).  k separators give k + 1 pieces.
SplitOn(s, seps) ==
    LET at == SelectSeq([j \in 1..Len(s) |-> j], LAMBDA j : s[j] \in seps)
        from(k) == IF k = 1 THEN 1 ELSE at[k - 1] + 1
        to(k)   == IF k = Len(at) + 1 THEN Len(s) ELSE at[k] - 1
    IN  [k \in 1..(Len(at) + 1) |-> SubSeq(s, from(k), to(k))]

NonEmpty(w) == w # <<>>

\* s.split(): the maximal runs of non-whitespace characters.
Words(s) == SelectSeq(SplitOn(s, Whitespace), NonEmpty)

\* sep.join(parts)
RECURSIVE JoinFrom(_, _, _)
JoinFrom(parts, sep, i) ==
    IF i > Len(parts) THEN <<>>
    ELSE IF i = Len(parts) THEN parts[i]
    ELSE parts[i] \o sep \o JoinFrom(parts, sep, i + 1)

JoinWith(parts, sep) == JoinFrom(parts, sep, 1)

\* line.isupper(): a cased character, and no lowercase one.
IsUpperStr(s) ==
    /\ \E i \in 1..Len(s) : s[i] \in Upper
    /\ \A i \in 1..Len(s) : s[i] \notin Lower

(***************************************************************************)
(* _is_section_header                                                      *)
(***************************************************************************)
\* ^[A-Z][A-Za-z\s&-]+$
MatchesTitleWords(line) ==
    /\ Len(line) >= 2
    /\ line[1] \in Upper
    /\ \A i \in 2..Len(line) :
          line[i] \in Upper \cup Lower \cup Whitespace \cup {"&", "-"}

\* ^C+\.\s*[A-Z] for a character class C without '.': the run of C is the
\* longest one, since a '.' has to follow it, and so is the run of \s.
MatchesMarker(line, C) ==
    LET k == RunEnd(line, 1, C)
        m == RunEnd(line, k + 2, Whitespace) + 1
    IN  /\ k >= 1
        /\ k + 1 <= Len(line)
        /\ line[k + 1] = "."
        /\ m <= Len(line)
        /\ line[m] \in Upper

\* ^[A-Z\s]+$
MatchesAllCaps(line) ==
    /\ Len(line) >= 1
    /\ \A i \in 1..Len(line) : line[i] \in Upper \cup Whitespace

\* ^[A-Z][a-z]+\s+[A-Z][a-z]+ : both runs are the longest ones, since a
\* character outside the class has to follow each.
MatchesTwoCapitalized(line) ==
    LET a == RunEnd(line, 2, Lower)
        b == RunEnd(line, a + 1, Whitespace)
    IN  /\ Len(line) >= 1
        /\ line[1] \in Upper
        /\ a >= 2
        /\ b >= a + 1
        /\ b + 2 <= Len(line)
        /\ line[b + 1] \in Upper
        /\ line[b + 2] \in Lower

MatchesSomePattern(line) ==
    \/ MatchesTitleWords(line)
    \/ MatchesMarker(line, Digit)
    \/ MatchesMarker(line, {"I", "V", "X"})
    \/ MatchesAllCaps(line)
    \/ MatchesTwoCapitalized(line)

\* The two exclusions do not depend on the pattern that matched, so the loop
\* returns True iff some pattern matches and neither exclusion applies.
IsSectionHeader(line) ==
    IF Len(line) < 3 \/ Len(line) > 150 THEN FALSE
    ELSE /\ MatchesSomePattern(line)
         /\ ~(IsUpperStr(line) /\ Len(line) > 50)
         /\ ~(Count(line, {"."}) > 3)

(***************************************************************************)
(* _extract_meaningful_title                                               *)
(***************************************************************************)
\* The first i at or after k with lo <= len(parts[i].strip()) <= hi, or 0.
RECURSIVE FirstFitting(_, _, _, _)
FirstFitting(parts, lo, hi, k) ==
    IF k > Len(parts) THEN 0
    ELSE IF lo <= Len(Strip(parts[k])) /\ Len(Strip(parts[k])) <= hi THEN k
    ELSE FirstFitting(parts, lo, hi, k + 1)

ExtractMeaningfulTitle(txt) ==
    LET sentences == Take(SplitOn(txt, {".", "!", "?"}), 3)
        si        == FirstFitting(sentences, 20, 100, 1)
        rawlines  == SplitOn(txt, {NL})
        li        == FirstFitting(rawlines, 10, 100, 1)
        words     == Words(txt)
    IN  IF si > 0 THEN Strip(sentences[si])
        ELSE IF li > 0 THEN Strip(rawlines[li])
        ELSE JoinWith(Take(words, 10), <<" ">>)
                 \o (IF Len(words) > 10 THEN <<".", ".", ".">> ELSE <<>>)

(***************************************************************************)
(* _extract_sections_from_page                                             *)
(***************************************************************************)
EmptyAccumulator == [title |-> <<>>, text |-> <<>>]

Content == <<"C", "o", "n", "t", "e", "n", "t">>

\* Mutant of FlushOnHeader: the fallback title is not cut to 100 characters.
FlushOnHeader_NoCut(secs, cur, line) ==
    IF Strip(cur.text) # <<>>
    THEN Append(secs, [title |-> IF cur.title # <<>> THEN cur.title ELSE line,
                       text  |-> Strip(cur.text)])
    ELSE secs

\* Lines 56-60: the flush a header line causes; line is the stripped line.
FlushOnHeader(secs, cur, line) ==
    IF Strip(cur.text) # <<>>
    THEN Append(secs, [title |-> IF cur.title # <<>> THEN cur.title
                                 ELSE Take(line, 100),
                       text  |-> Strip(cur.text)])
    ELSE secs

\* Line 61.
StartSection(line) == [title |-> line, text |-> <<>>]

\* Line 63.
AppendLine(cur, line) == [cur EXCEPT !.text = @ \o line \o <<" ">>]

\* Mutant of FinalFlush: no default title.
FinalFlush_NoDefault(secs, cur) ==
    IF Strip(cur.text) # <<>>
    THEN Append(secs, [title |-> cur.title, text |-> Strip(cur.text)])
    ELSE secs

\* Lines 64-68: the flush after the last line.
FinalFlush(secs, cur) ==
    IF Strip(cur.text) # <<>>
    THEN Append(secs, [title |-> IF cur.title # <<>> THEN cur.title
                                 ELSE Content,
                       text  |-> Strip(cur.text)])
    ELSE secs

\* Lines 69-74: the whole page as one section when nothing was emitted.
Fallback(secs, txt) ==
    IF secs = <<>> /\ Strip(txt) # <<>>
    THEN <<[title |-> ExtractMeaningfulTitle(txt), text |-> Strip(txt)]>>
    ELSE secs

\* One pass of the loop over lines (lines 51-63) on the state <<secs, cur>>.
LoopStep(st, rawline) ==
    LET line == Strip(rawline)
    IN  IF line = <<>> THEN st
        ELSE IF IsSectionHeader(line)
        THEN <<FlushOnHeader(st[1], st[2], line), StartSection(line)>>
        ELSE <<st[1], AppendLine(st[2], line)>>

RECURSIVE LoopFrom(_, _, _)
LoopFrom(rawlines, k, st) ==
    IF k > Len(rawlines) THEN st
    ELSE LoopFrom(rawlines, k + 1, LoopStep(st, rawlines[k]))

ExtractSectionsFromPage(txt) ==
    LET st == LoopFrom(SplitOn(txt, {NL}), 1, <<<<>>, EmptyAccumulator>>)
    IN  Fallback(FinalFlush(st[1], st[2]), txt)

(***************************************************************************)
(* _is_meaningful_section                                                  *)
(***************************************************************************)
\* Mutant of IsMeaningfulSection: the two ratio tests are not strict.
IsMeaningfulSection_NotStrict(txt) ==
    LET noise == <<Len(Words(txt)) < 10,
                   IF Len(txt) > 0
                   THEN 10 * Count(txt, {NL}) >= Len(txt) ELSE FALSE,
                   IF Len(txt) > 0
                   THEN 10 * Count(txt, Digit) >= 3 * Len(txt) ELSE FALSE>>
    IN  ~(\E k \in 1..Len(noise) : noise[k])

\* The quotients are compared as exact fractions: count / len > 0.1 iff
\* 10 * count > len and count / len > 0.3 iff 10 * count > 3 * len.  Float
\* division is correctly rounded, so a quotient that is exactly 1/10 or 3/10
\* is the same double as the literal and is not greater than it.
IsMeaningfulSection(txt) ==
    LET noise == <<Len(Words(txt)) < 10,
                   IF Len(txt) > 0
                   THEN 10 * Count(txt, {NL}) > Len(txt) ELSE FALSE,
                   IF Len(txt) > 0
                   THEN 10 * Count(txt, Digit) > 3 * Len(txt) ELSE FALSE>>
    IN  ~(\E k \in 1..Len(noise) : noise[k])

(***************************************************************************)
(* _classify_content_type                                                  *)
(***************************************************************************)
UpperSeq ==
    <<"A", "B", "C", "D", "E", "F", "G", "H", "I", "J", "K", "L", "M",
      "N", "O", "P", "Q", "R", "S", "T", "U", "V", "W", "X", "Y", "Z">>

LowerSeq ==
    <<"a", "b", "c", "d", "e", "f", "g", "h", "i", "j", "k", "l", "m",
      "n", "o", "p", "q", "r", "s", "t", "u", "v", "w", "x", "y", "z">>

\* text.lower()
ToLower(s) ==
    [i \in 1..Len(s) |->
        IF s[i] \in Upper
        THEN LowerSeq[CHOOSE k \in 1..Len(UpperSeq) : UpperSeq[k] = s[i]]
        ELSE s[i]]

\* kw in s
Contains(s, kw) ==
    \E i \in 1..(Len(s) - Len(kw) + 1) : SubSeq(s, i, i + Len(kw) - 1) = kw

ClassifyContentType(txt) ==
    LET t == ToLower(txt)
    IN  IF Contains(t, <<"a", "b", "s", "t", "r", "a", "c", "t">>) \/ Contains(t, <<"s", "u", "m", "m", "a", "r", "y">>)
        THEN "abstract"
        ELSE IF Contains(t, <<"i", "n", "t", "r", "o", "d", "u", "c", "t", "i", "o", "n">>) \/ Contains(t, <<"b", "a", "c", "k", "g", "r", "o", "u", "n", "d">>)
        THEN "introduction"
        ELSE IF Contains(t, <<"m", "e", "t", "h", "o", "d">>) \/ Contains(t, <<"a", "p", "p", "r", "o", "a", "c", "h">>)
        THEN "methodology"
        ELSE IF Contains(t, <<"r", "e", "s", "u", "l", "t">>) \/ Contains(t, <<"f", "i", "n", "d", "i", "n", "g">>)
        THEN "results"
        ELSE IF Contains(t, <<"c", "o", "n", "c", "l", "u", "s", "i", "o", "n">>) \/ Contains(t, <<"d", "i", "s", "c", "u", "s", "s", "i", "o", "n">>)
        THEN "conclusion"
        ELSE IF Contains(t, <<"r", "e", "f", "e", "r", "e", "n", "c", "e">>) \/ Contains(t, <<"b", "i", "b", "l", "i", "o", "g", "r", "a", "p", "h", "y">>)
        THEN "references"
        ELSE "content"

(***************************************************************************)
(* rank_sections                                                           *)
(***************************************************************************)
NoKey == "<no content_type key>"

\* section.get('content_type', 'content')
ContentTypeOf(section) ==
    IF "content_type" \in DOMAIN section THEN section.content_type ELSE "content"

\* Mutant of Weight: the references penalty is lost.
Weight_NoPenalty(label) ==
    CASE label = "abstract"     -> 12
      [] label = "introduction" -> 11
      [] label = "methodology"  -> 13
      [] label = "results"      -> 13
      [] label = "conclusion"   -> 12
      [] OTHER                  -> 10

\* The weight table, in tenths; .get(label, 1.0) for a label not in it.
Weight(label) ==
    CASE label = "abstract"     -> 12
      [] label = "introduction" -> 11
      [] label = "methodology"  -> 13
      [] label = "results"      -> 13
      [] label = "conclusion"   -> 12
      [] label = "references"   -> 5
      [] label = "content"      -> 10
      [] OTHER                  -> 10

\* weighted_scores after the loop of lines 159-169: (score * weight, i) pairs.
WeightedScores(secs, sims) ==
    [i \in 1..Len(secs) |->
        <<sims[i] * Weight(ContentTypeOf(secs[i])), i>>]

\* Mutant of InsertDesc: p goes in front of the pairs with an equal key, as
\* in an ascending sort that is reversed afterwards.
RECURSIVE InsertDesc_Unstable(_, _)
InsertDesc_Unstable(s, p) ==
    IF s = <<>> THEN <<p>>
    ELSE IF s[1][1] > p[1] THEN <<s[1]>> \o InsertDesc_Unstable(Tail(s), p)
    ELSE <<p>> \o s

\* Insert pair p into the descending list s behind every pair whose key is
\* greater than or equal to p's key.
RECURSIVE InsertDesc(_, _)
InsertDesc(s, p) ==
    IF s = <<>> THEN <<p>>
    ELSE IF s[1][1] >= p[1] THEN <<s[1]>> \o InsertDesc(Tail(s), p)
    ELSE <<p>> \o s

\* list.sort(reverse=True, key=lambda x: x[0]): descending by key; Python's
\* sort keeps elements with equal keys in their original order, also with
\* reverse=True.
RECURSIVE SortDescFrom(_, _, _)
SortDescFrom(pairs, k, acc) ==
    IF k > Len(pairs) THEN acc
    ELSE SortDescFrom(pairs, k + 1, InsertDesc(acc, pairs[k]))

SortDesc(pairs) == SortDescFrom(pairs, 1, <<>>)

\* Mutant of Prefix: the slice is one element short.
Prefix_OffByOne(s, k) == SubSeq(s, 1, Min(k, Len(s)) - 1)

\* weighted_scores[:top_k] for top_k >= 0.
Prefix(s, k) == SubSeq(s, 1, Min(k, Len(s)))

\* Mutant of RankedSection: the weighted score is reported.
RankedSection_Weighted(section, rank, idx, sims) ==
    [f \in DOMAIN section \cup {"importance_rank", "relevance_score"} |->
        CASE f = "importance_rank" -> rank + 1
          [] f = "relevance_score" -> sims[idx] * Weight(ContentTypeOf(section))
          [] OTHER                 -> section[f]]

\* section.copy() with importance_rank and relevance_score set (lines 173-175).
RankedSection(section, rank, idx, sims) ==
    [f \in DOMAIN section \cup {"importance_rank", "relevance_score"} |->
        CASE f = "importance_rank" -> rank + 1
          [] f = "relevance_score" -> sims[idx]
          [] OTHER                 -> section[f]]

RankSections(secs, sims, k, mdl) ==
    IF secs = <<>> \/ mdl = "None" THEN <<>>
    ELSE LET sorted == SortDesc(WeightedScores(secs, sims))
             cut    == Prefix(sorted, k)
         IN  [r \in 1..Len(cut) |->
                 RankedSection(secs[cut[r][2]], r - 1, cut[r][2], sims)]

\* No segmentation is running.
SegIdle ==
    /\ text = <<>>
    /\ lines = <<>>
    /\ pos = 0
    /\ current = EmptyAccumulator
    /\ sections = <<>>
    /\ meaningful = "unset"

\* No process_documents call is running.
PipeIdle ==
    /\ documents = <<>>
    /\ pdfs = <<>>
    /\ doc_i = 0
    /\ processed_docs = <<>>
    /\ output = <<>>

(***************************************************************************)
(* Inputs of the ranking specification.                                    *)
(***************************************************************************)
\* Cosine similarities are in hundredths.  Every label of the weight table,
\* an unrecognised label and a section without the key occur; 65 * 1.2,
\* 60 * 1.3 and 78 * 1.0 are equal weighted scores of different raw scores.
ScoredLabels ==
    {<<"abstract", 65>>, <<"abstract", 60>>, <<"introduction", 60>>,
     <<"methodology", 60>>, <<"methodology", 70>>, <<"results", 60>>, <<"conclusion", 65>>,
     <<"references", 90>>, <<"references", -20>>, <<"content", 78>>,
     <<"content", -20>>, <<"table", 60>>, <<NoKey, 60>>}

\* The i-th pooled section; its page number names it.
MkSection(i, label) ==
    IF label = NoKey
    THEN [document |-> "a.pdf", page |-> i]
    ELSE [document |-> "a.pdf", page |-> i, content_type |-> label]

RankInit ==
    /\ model \in {"None", "loaded"}
    /\ top_k \in 1..MaxTopK
    /\ \E n \in 0..MaxSections : \E f \in [1..n -> ScoredLabels] :
          /\ all_sections = [i \in 1..n |-> MkSection(i, f[i][1])]
          /\ similarities = [i \in 1..n |-> f[i][2]]
    /\ top_sections = <<>>
    /\ SegIdle
    /\ PipeIdle
    /\ pc = "scored"

Rank ==
    /\ pc = "scored"
    /\ top_sections' = RankSections(all_sections, similarities, top_k, model)
    /\ pc' = "done"
    /\ UNCHANGED <<model, top_k, all_sections, similarities>>
    /\ UNCHANGED <<segVars, pipeVars>>

RankNext == Rank

SpecRank == RankInit /\ [][RankNext]_vars

(***************************************************************************)
(* The segmentation specification: _extract_sections_from_page on a page,  *)
(* one action per path through the loop body and one for the code after    *)
(* the loop.                                                               *)
(***************************************************************************)
WsLine == <<" ", "\t">>
Methods == <<"M", "e", "t", "h", "o", "d", "s">>
NumberedScope == <<" ", "1", ".", " ", "S", "c", "o", "p", "e", " ">>
RomanData == <<"I", "I", ".", "D", "a", "t", "a">>
RelatedWork == <<"R", "e", "l", "a", "t", "e", "d", " ", "W", "o", "r", "k", ",", " ", "i", "n", " ", "3", " ", "p", "a", "r", "t", "s">>
TooShort == <<"A", "B">>
CapsCaption == Rep("A", 51)
LongHeader == <<"A">> \o Rep("b", 100)
TooLong == <<"A">> \o Rep("b", 150)
BodyData == <<"t", "h", "e", " ", "d", "a", "t", "a", " ", "h", "a", "s", " ", "1", "2", " ", "r", "o", "w", "s", ".">>
ManyPeriods == <<"A", "a", " ", "B", "b", ".", " ", "c", ".", " ", "d", ".", " ", "e", ".">>
WordyHeader == [i \in 1..120 |-> IF i % 3 = 1 THEN "A" ELSE IF i % 3 = 2 THEN "b" ELSE " "]
Introduction == <<"I", "n", "t", "r", "o", "d", "u", "c", "t", "i", "o", "n">>

\* The raw lines pages are made of.
PageLines ==
    {WsLine, Methods, NumberedScope, RomanData, RelatedWork, TooShort,
     CapsCaption, LongHeader, TooLong, BodyData, ManyPeriods, WordyHeader,
     Introduction}

PageTexts ==
    {JoinWith(ls, <<NL>>) :
        ls \in UNION {[1..n -> PageLines] : n \in 0..MaxLines}}

RankIdle ==
    /\ model = "None"
    /\ top_k = 1
    /\ all_sections = <<>>
    /\ similarities = <<>>
    /\ top_sections = <<>>

SegInit ==
    /\ text \in PageTexts
    /\ lines = SplitOn(text, {NL})
    /\ pos = 1
    /\ current = EmptyAccumulator
    /\ sections = <<>>
    /\ meaningful = "unset"
    /\ pc = "loop"
    /\ RankIdle
    /\ PipeIdle

\* Lines 52-54: a line that is empty after strip().
SkipBlank ==
    /\ pc = "loop"
    /\ pos <= Len(lines)
    /\ Strip(lines[pos]) = <<>>
    /\ pos' = pos + 1
    /\ UNCHANGED <<text, lines, current, sections, meaningful, pc, rankVars, pipeVars>>

\* Lines 55-61: a header line.
OnHeader ==
    /\ pc = "loop"
    /\ pos <= Len(lines)
    /\ LET line == Strip(lines[pos])
       IN  /\ line # <<>>
           /\ IsSectionHeader(line)
           /\ sections' = FlushOnHeader(sections, current, line)
           /\ current' = StartSection(line)
    /\ pos' = pos + 1
    /\ UNCHANGED <<text, lines, meaningful, pc, rankVars, pipeVars>>

\* Lines 62-63: any other line.
OnBody ==
    /\ pc = "loop"
    /\ pos <= Len(lines)
    /\ LET line == Strip(lines[pos])
       IN  /\ line # <<>>
           /\ ~IsSectionHeader(line)
           /\ current' = AppendLine(current, line)
    /\ pos' = pos + 1
    /\ UNCHANGED <<text, lines, sections, meaningful, pc, rankVars, pipeVars>>

\* Lines 64-75: the final flush, the fallback and the return.
Finish ==
    /\ pc = "loop"
    /\ pos > Len(lines)
    /\ sections' = Fallback(FinalFlush(sections, current), text)
    /\ pc' = "done"
    /\ UNCHANGED <<text, lines, pos, current, meaningful, rankVars, pipeVars>>

SegNext == SkipBlank \/ OnHeader \/ OnBody \/ Finish

SpecSeg == SegInit /\ [][SegNext]_vars

(***************************************************************************)
(* The filter specification: _is_meaningful_section on a text.             *)
(***************************************************************************)
\* A text of w one-character words, the first d of them digits, separated
\* by single characters, the first n of them newlines, behind p letters
\* that lengthen the first word; p blanks when there is no word.
FilterText(w, d, n, p) ==
    IF w = 0 THEN Rep(" ", p)
    ELSE [j \in 1..(p + 2 * w - 1) |->
            IF j <= p THEN "a"
            ELSE IF (j - p) % 2 = 1
                 THEN (IF (j - p + 1) \div 2 <= d THEN "7" ELSE "a")
                 ELSE (IF (j - p) \div 2 <= n THEN NL ELSE " ")]

FilterTexts ==
    {FilterText(w, d, n, p) :
        w \in 0..MaxWords, d \in 0..MaxWords, n \in 0..MaxNewlines,
        p \in 0..MaxPad}

FilterInit ==
    /\ text \in FilterTexts
    /\ meaningful = "unset"
    /\ lines = <<>>
    /\ pos = 0
    /\ current = EmptyAccumulator
    /\ sections = <<>>
    /\ pc = "filter"
    /\ RankIdle
    /\ PipeIdle

Filter ==
    /\ pc = "filter"
    /\ meaningful' = IsMeaningfulSection(text)
    /\ pc' = "done"
    /\ UNCHANGED <<text, lines, pos, current, sections, rankVars, pipeVars>>

FilterNext == Filter

SpecFilter == FilterInit /\ [][FilterNext]_vars

(***************************************************************************)
(* extract_text_chunks and process_documents                               *)
(***************************************************************************)
\* The documents of the PDF directory.  A file is absent, or pdfplumber
\* cannot open it, or it has pages; page.extract_text() raises or returns a
\* text, empty for a page without text.
Filenames == {"a.pdf", "b.pdf"}

GoodPageText == <<"s", "h", "o", "r", "t", " ", "b", "i", "t", "\n", "M", "e", "t", "h", "o", "d", "s", "\n", "w", "e", " ", "a", "p", "p", "l", "y", " ", "t", "h", "e", " ", "m", "e", "t", "h", "o", "d", " ", "t", "o", " ", "e", "a", "c", "h", " ", "p", "a", "g", "e", " ", "o", "f", " ", "t", "h", "e", " ", "i", "n", "p", "u", "t", " ", "f", "i", "l", "e", "s">>

RaisingPage == [raises |-> TRUE, text |-> <<>>]
EmptyPage == [raises |-> FALSE, text |-> <<>>]
GoodPage == [raises |-> FALSE, text |-> GoodPageText]

PageKinds == {RaisingPage, EmptyPage, GoodPage}

AbsentFile == [exists |-> FALSE, opens |-> FALSE, pages |-> <<>>]
CorruptFile == [exists |-> TRUE, opens |-> FALSE, pages |-> <<>>]

PdfContents ==
    {AbsentFile, CorruptFile} \cup
    {[exists |-> TRUE, opens |-> TRUE, pages |-> ps] :
        ps \in UNION {[1..n -> PageKinds] : n \in 0..MaxPages}}

\* Lines 32-41 for one page text, without the document and the page number:
\* the sections of the page that pass the filter, classified.
KeptSections(txt) ==
    LET kept == SelectSeq(ExtractSectionsFromPage(txt),
                          LAMBDA sec : IsMeaningfulSection(sec.text))
    IN  [k \in 1..Len(kept) |->
            [text          |-> kept[k].text,
             section_title |-> kept[k].title,
             content_type  |-> ClassifyContentType(kept[k].text)]]

\* KeptSections of the page texts of the directory, computed once.
KeptSectionsOf == [txt \in {pg.text : pg \in PageKinds} |-> KeptSections(txt)]

\* Lines 29-41: the chunks one page adds.
PageChunks(document_name, page_num, txt) ==
    IF txt = <<>> THEN <<>>
    ELSE [k \in 1..Len(KeptSectionsOf[txt]) |->
            [document      |-> document_name,
             text          |-> KeptSectionsOf[txt][k].text,
             section_title |-> KeptSectionsOf[txt][k].section_title,
             page          |-> page_num,
             content_type  |-> KeptSectionsOf[txt][k].content_type]]

\* The loop over the pages (lines 28-41); an exception of extract_text()
\* leaves the loop, and the except clause keeps the chunks appended so far.
RECURSIVE ChunksFrom(_, _, _, _)
ChunksFrom(document_name, pages, page_num, chunks) ==
    IF page_num > Len(pages) \/ pages[page_num].raises THEN chunks
    ELSE ChunksFrom(document_name, pages, page_num + 1,
                    chunks \o PageChunks(document_name, page_num,
                                         pages[page_num].text))

\* extract_text_chunks: the basename of the path is the filename.
ExtractTextChunks(filename, pdf) ==
    IF ~pdf.opens THEN <<>>
    ELSE ChunksFrom(filename, pdf.pages, 1, <<>>)

\* Mutant of ProcessedAfter: a missing document is recorded as well.
ProcessedAfter_All(processed, filename, found) == Append(processed, filename)

\* Lines 193-198: processed_docs after a document.
ProcessedAfter(processed, filename, found) ==
    IF found THEN Append(processed, filename) ELSE processed

\* s["text"][:500] + "..." if len(s["text"]) > 500 else s["text"]
RefinedText(txt) ==
    IF Len(txt) > 500 THEN Take(txt, 500) \o <<".", ".", ".">> ELSE txt

\* Lines 200-222, without persona, job and timestamp.
OutputRecord(processed, top) ==
    [metadata |-> [input_documents |-> processed],
     extracted_sections |->
        [k \in 1..Len(top) |->
            [document        |-> top[k].document,
             section_title   |-> top[k].section_title,
             importance_rank |-> top[k].importance_rank,
             page_number     |-> top[k].page]],
     subsection_analysis |->
        [k \in 1..Len(top) |->
            [document     |-> top[k].document,
             refined_text |-> RefinedText(top[k].text),
             page_number  |-> top[k].page]]]

DefaultTopK == 10

\* Cosine similarity of a kept section to the query, in hundredths.
PipeSimValues == {-20, 60}

PipeInit ==
    /\ model = "None"
    /\ top_k = DefaultTopK
    /\ all_sections = <<>>
    /\ similarities = <<>>
    /\ top_sections = <<>>
    /\ documents \in UNION {[1..n -> Filenames] : n \in 0..MaxDocs}
    /\ pdfs \in [Filenames -> PdfContents]
    /\ doc_i = 0
    /\ processed_docs = <<>>
    /\ output = <<>>
    /\ pc = "begin"
    /\ SegIdle

\* Lines 180-189.
Begin ==
    /\ pc = "begin"
    /\ model' = "loaded"
    /\ all_sections' = <<>>
    /\ processed_docs' = <<>>
    /\ doc_i' = 1
    /\ pc' = "docs"
    /\ UNCHANGED <<top_k, similarities, top_sections, documents, pdfs,
                   output, segVars>>

\* Lines 190-193, 197-198: the file of the document does not exist.
SkipMissing ==
    /\ pc = "docs"
    /\ doc_i <= Len(documents)
    /\ ~pdfs[documents[doc_i]].exists
    /\ processed_docs' = ProcessedAfter(processed_docs, documents[doc_i], FALSE)
    /\ doc_i' = doc_i + 1
    /\ UNCHANGED <<rankVars, documents, pdfs, output, segVars, pc>>

\* Lines 190-196: the file exists.
ExtractDocument ==
    /\ pc = "docs"
    /\ doc_i <= Len(documents)
    /\ pdfs[documents[doc_i]].exists
    /\ all_sections' = all_sections \o
           ExtractTextChunks(documents[doc_i], pdfs[documents[doc_i]])
    /\ processed_docs' = ProcessedAfter(processed_docs, documents[doc_i], TRUE)
    /\ doc_i' = doc_i + 1
    /\ UNCHANGED <<model, top_k, similarities, top_sections, documents, pdfs,
                   output, segVars, pc>>

\* Lines 199-223.  The kept sections of the directory have one text, so the
\* embedding model gives them one similarity to the query.
RankAndReturn ==
    /\ pc = "docs"
    /\ doc_i > Len(documents)
    /\ \E v \in PipeSimValues :
          /\ similarities' = [k \in 1..Len(all_sections) |-> v]
          /\ top_sections' = RankSections(all_sections, similarities', top_k,
                                          model)
    /\ output' = OutputRecord(processed_docs, top_sections')
    /\ pc' = "done"
    /\ UNCHANGED <<model, top_k, all_sections, documents, pdfs, doc_i,
                   processed_docs, segVars>>

PipeNext == Begin \/ SkipMissing \/ ExtractDocument \/ RankAndReturn

SpecPipe == PipeInit /\ [][PipeNext]_vars

(***************************************************************************)
(* Properties of rank_sections (SpecRank).                                 *)
(***************************************************************************)
RankDone == pc = "done" /\ model = "loaded" /\ Len(all_sections) >= 1

\* The weight the documentation gives a section, in tenths.
DocumentedWeight(section) ==
    LET label == IF "content_type" \in DOMAIN section
                 THEN section.content_type ELSE "content"
    IN  IF label \in {"methodology", "results"} THEN 13
        ELSE IF label \in {"abstract", "conclusion"} THEN 12
        ELSE IF label = "introduction" THEN 11
        ELSE IF label = "references" THEN 5
        ELSE 10

\* Weighted score of the pooled section at index i, in thousandths.
DocumentedScore(i) == similarities[i] * DocumentedWeight(all_sections[i])

\* Ranks at which the pooled section at index i was returned.
RanksOf(i) == {r \in 1..Len(top_sections) : top_sections[r].page = i}

Returned(i) == RanksOf(i) # {}

\* C1: with a model loaded, n >= 1 pooled sections and top_k = K >= 1,
\* rank_sections returns exactly min(K, n) sections and the i-th of them has
\* importance_rank i.
C1_RanksContiguous ==
    (RankDone /\ top_k >= 1) =>
        /\ Len(top_sections) = Min(top_k, Len(all_sections))
        /\ \A i \in 1..Len(top_sections) : top_sections[i].importance_rank = i

C1_Witness ==
    /\ RankDone
    /\ Len(all_sections) = MaxSections
    /\ top_k = MaxSections - 1
    /\ Len(top_sections) = MaxSections - 1

\* C2: in the returned list the weighted score (raw similarity times the
\* documented weight of the content type) never increases with the rank, and
\* no pooled section that was left out has a weighted score strictly greater
\* than a returned one.
C2_WeightedOrder ==
    RankDone =>
        /\ \A r \in 1..Len(top_sections) - 1 :
              DocumentedScore(top_sections[r].page)
                  >= DocumentedScore(top_sections[r + 1].page)
        /\ \A i \in 1..Len(all_sections) : \A r \in 1..Len(top_sections) :
              ~Returned(i) =>
                  DocumentedScore(i) <= DocumentedScore(top_sections[r].page)

\* A references section with the highest raw score is cut in favour of a
\* section with a lower raw score.
C2_Witness ==
    /\ RankDone
    /\ Len(top_sections) < Len(all_sections)
    /\ \E i \in 1..Len(all_sections) : \E r \in 1..Len(top_sections) :
          /\ ~Returned(i)
          /\ ContentTypeOf(all_sections[i]) = "references"
          /\ similarities[i] > similarities[top_sections[r].page]

\* C3: of two pooled sections at indices i < j with equal weighted scores,
\* the one at i has the smaller importance_rank when both are returned, and
\* j is never returned without i.
C3_TieBreakStable ==
    RankDone =>
        \A i, j \in 1..Len(all_sections) :
            (i < j /\ DocumentedScore(i) = DocumentedScore(j) /\ Returned(j)) =>
                /\ Returned(i)
                /\ \A ri \in RanksOf(i) : \A rj \in RanksOf(j) : ri < rj

\* Two sections tie although their raw scores differ, and the cut falls
\* between them.
C3_Witness ==
    /\ RankDone
    /\ \E i, j \in 1..Len(all_sections) :
          /\ i < j
          /\ DocumentedScore(i) = DocumentedScore(j)
          /\ similarities[i] # similarities[j]
          /\ Returned(i)
          /\ ~Returned(j)

IsDocumentedExample ==
    /\ Len(all_sections) = 2
    /\ ContentTypeOf(all_sections[1]) = "references" /\ similarities[1] = 90
    /\ ContentTypeOf(all_sections[2]) = "methodology" /\ similarities[2] = 70

\* C4: every returned section carries as relevance_score the raw similarity
\* of the pooled section it copies; for [{references, 0.9}, {methodology,
\* 0.7}] the methodology section is rank 1 with relevance_score 0.7.
C4_RawScoreReported ==
    RankDone =>
        /\ \A r \in 1..Len(top_sections) :
              /\ top_sections[r].page \in 1..Len(all_sections)
              /\ top_sections[r].relevance_score
                     = similarities[top_sections[r].page]
              /\ [f \in DOMAIN all_sections[top_sections[r].page] |->
                     top_sections[r][f]] = all_sections[top_sections[r].page]
        /\ IsDocumentedExample =>
              /\ ContentTypeOf(top_sections[1]) = "methodology"
              /\ top_sections[1].importance_rank = 1
              /\ top_sections[1].relevance_score = 70

C4_Witness ==
    /\ RankDone
    /\ IsDocumentedExample
    /\ Len(top_sections) >= 1
    /\ top_sections[1].page = 2

(***************************************************************************)
(* Properties of _extract_sections_from_page (SpecSeg).                    *)
(***************************************************************************)
\* The lines as the loop sees them: stripped, the empty ones skipped.
SeenLines ==
    SelectSeq([k \in 1..Len(lines) |-> Strip(lines[k])], NonEmpty)

NoHeaderLine == \A k \in 1..Len(SeenLines) : ~IsSectionHeader(SeenLines[k])

\* C5: for a page text that is not blank and has no header line the result is one
\* section, whose text is the whole page and whose title is the one
\* _extract_meaningful_title derives from the page.
C5_NoHeaderFallback ==
    (pc = "done" /\ Strip(text) # <<>> /\ NoHeaderLine) =>
        /\ Len(sections) = 1
        /\ sections[1].text = Strip(text)
        /\ sections[1].title = ExtractMeaningfulTitle(text)

\* C8: every section emitted has a non-empty title and a text that is
\* non-empty after trimming, whichever path emitted it.
C8_TitleAndTextNonEmpty ==
    \A k \in 1..Len(sections) :
        /\ sections[k].title # <<>>
        /\ Strip(sections[k].text) # <<>>

\* A flush on a header that had to borrow and cut the header's line, then
\* the final flush under that header's own, longer title.
C8_Witness ==
    /\ pc = "done"
    /\ Len(sections) = 2
    /\ Len(sections[1].title) = 100
    /\ Len(sections[2].title) > 100

\* The page is one header line followed by body lines only.
TitledPage ==
    /\ Len(SeenLines) >= 2
    /\ IsSectionHeader(SeenLines[1])
    /\ \A k \in 2..Len(SeenLines) : ~IsSectionHeader(SeenLines[k])

\* What a pass of the loop over a header line has to do.
HeaderPass ==
    LET line == Strip(lines[pos])
    IN  (/\ pc = "loop"
         /\ pos <= Len(lines)
         /\ line # <<>>
         /\ IsSectionHeader(line)
         /\ pos' = pos + 1)
        => /\ current' = [title |-> line, text |-> <<>>]
           /\ IF Strip(current.text) = <<>>
              THEN sections' = sections
              ELSE /\ Len(sections') = Len(sections) + 1
                   /\ SubSeq(sections', 1, Len(sections)) = sections
                   /\ sections'[Len(sections')].text = Strip(current.text)
                   /\ sections'[Len(sections')].title =
                          IF current.title # <<>> THEN current.title
                          ELSE SubSeq(line, 1, Min(100, Len(line)))

\* C10: a page of one header line followed by body lines yields one section,
\* titled by the header line and holding the body lines joined by single
\* spaces (lines taken as the loop reads them, stripped); and on a header
\* line the accumulator is flushed iff its trimmed text is non-empty, under
\* its own title or else the header's line cut to 100 characters, and a new
\* accumulator with that line as title and no text is started.
C10_TitledPage ==
    /\ [](pc = "done" /\ TitledPage =>
            sections = <<[title |-> SeenLines[1],
                          text  |-> JoinWith(Tail(SeenLines), <<" ">>)]>>)
    /\ [][HeaderPass]_vars

C10_Witness ==
    /\ pc = "done"
    /\ TitledPage
    /\ Len(SeenLines) = MaxLines
    /\ lines[1] # SeenLines[1]
    /\ Len(sections) = 1

(***************************************************************************)
(* Properties of _is_meaningful_section (SpecFilter).                      *)
(***************************************************************************)
\* The words of the text start where a character that is no whitespace
\* follows whitespace or opens the text.
WordCount ==
    Cardinality({i \in 1..Len(text) :
        /\ text[i] \notin Whitespace
        /\ (i = 1 \/ text[i - 1] \in Whitespace)})

NewlineCount == Cardinality({i \in 1..Len(text) : text[i] = NL})

DigitCount == Cardinality({i \in 1..Len(text) : text[i] \in Digit})

\* C9: a text is dropped iff it has fewer than 10 words, or it is non-empty
\* and newlines / characters > 0.1, or it is non-empty and digits /
\* characters > 0.3; a 10-word text without newlines and digits is kept,
\* and so is a text whose digit ratio is exactly 0.3.
C9_DropIffNoise ==
    pc = "done" =>
        /\ (meaningful = FALSE) <=>
              \/ WordCount < 10
              \/ Len(text) > 0 /\ 10 * NewlineCount > Len(text)
              \/ Len(text) > 0 /\ 10 * DigitCount > 3 * Len(text)
        /\ (WordCount = 10 /\ NewlineCount = 0 /\ DigitCount = 0)
              => meaningful = TRUE
        /\ (/\ WordCount >= 10
            /\ 10 * NewlineCount <= Len(text)
            /\ 10 * DigitCount = 3 * Len(text))
              => meaningful = TRUE

C9_Witness ==
    /\ pc = "done"
    /\ Len(text) > 0
    /\ 10 * DigitCount = 3 * Len(text)
    /\ 10 * NewlineCount = Len(text)
    /\ WordCount = 10
    /\ meaningful = TRUE

(***************************************************************************)
(* Properties of process_documents (SpecPipe).                             *)
(***************************************************************************)
FileExists(f) == pdfs[f].exists

\* pdfplumber.open() or extract_text() of some page raises.
ExtractionFails(f) ==
    /\ pdfs[f].exists
    /\ \/ ~pdfs[f].opens
       \/ \E k \in 1..Len(pdfs[f].pages) : pdfs[f].pages[k].raises

PooledFrom(f) ==
    {k \in 1..Len(all_sections) : all_sections[k].document = f}

\* C6: a document whose extraction raises on any page is skipped: none of
\* its sections is in the pooled list, the other documents are processed
\* and an output record is returned.
C6_FailedDocumentExcluded ==
    pc = "done" =>
        /\ doc_i = Len(documents) + 1
        /\ "metadata" \in DOMAIN output
        /\ \A i \in 1..Len(documents) :
              ExtractionFails(documents[i]) => PooledFrom(documents[i]) = {}

\* C7: a document whose file does not exist is skipped and the run goes on:
\* metadata.input_documents is the subsequence of the input documents whose
\* file exists, no pooled section comes from a missing file, and the
\* documents behind a missing one are still extracted.
C7_MissingSkipped ==
    pc = "done" =>
        /\ doc_i = Len(documents) + 1
        /\ output.metadata.input_documents = SelectSeq(documents, FileExists)
        /\ \A k \in 1..Len(all_sections) :
              FileExists(all_sections[k].document)
        /\ \A i \in 1..Len(documents) :
              (/\ pdfs[documents[i]].opens
               /\ Len(pdfs[documents[i]].pages) >= 1
               /\ pdfs[documents[i]].pages[1] = GoodPage)
                  => PooledFrom(documents[i]) # {}

C7_Witness ==
    /\ pc = "done"
    /\ Len(documents) = MaxDocs
    /\ ~FileExists(documents[1])
    /\ FileExists(documents[MaxDocs])
    /\ PooledFrom(documents[MaxDocs]) # {}
    /\ output.metadata.input_documents # <<>>
    /\ output.extracted_sections # <<>>
====
